---- MODULE Spec2Model ----
(***************************************************************************)
(* The content-loading pipeline of the blog (src/src/app/lib/posts.ts):   *)
(* getAllPosts, getPaginatedPosts, getPostBySlug and getPlaceholderImage,  *)
(* run against a content directory.                                        *)
(*                                                                         *)
(* A JavaScript string is a sequence of UTF-16 code units (naturals), so   *)
(* that endsWith, the /\.md$/ replacement, the lexical < of the sort       *)
(* comparator and the character-code checksum are all computed.            *)
(* A file's text is a sequence of lines; gray-matter's split of a text     *)
(* into front matter and body is computed by matter below.                 *)
(***************************************************************************)
EXTENDS Integers, Sequences, FiniteSets, TLC

VARIABLES
  dirOk,      \* whether fs.readdir(postsDirectory) succeeds
  files,      \* the directory's entries in enumeration order: [name, readable, text]
  cacheAll,   \* memo of getAllPosts: <<>> or <<result>>
  cachePage,  \* memo of getPaginatedPosts: page |-> result
  cacheSlug,  \* memo of getPostBySlug: slug |-> result
  request,    \* the number of requests the server has taken
  response,   \* what the last request was answered with
  imageCalls, \* the calls made for the image of a slug: [slug, url]
  inFlight    \* a call of getAllPosts() under way, read by read

vars == <<dirOk, files, cacheAll, cachePage, cacheSlug, request, response, imageCalls,
          inFlight>>

-----------------------------------------------------------------------------
(* Bounds of the model *)

\* largest number of entries of a directory drawn from Names
MaxFiles == 3
\* largest number of posts of a long listing
MaxPosts == 21
\* largest number of entries of the directory of a running server
MaxServerFiles == 2
\* largest number of requests a server takes
MaxRequests == 2
\* largest length of a slug given to getPlaceholderImage
MaxSlugLen == 3
\* largest number of slugs looked up where slugs are paths
MaxLookups == 2
\* largest number of entries of a directory whose reads are followed one by one
MaxReadFiles == 3

-----------------------------------------------------------------------------
(* JavaScript values *)

Min(a, b) == IF a < b THEN a ELSE b
Max(a, b) == IF a > b THEN a ELSE b

\* ".md"
DotMd == <<46, 109, 100>>

\* a value read from an object: undefined, or a string
Undefined == [def |-> FALSE, s |-> <<>>]
Str(s) == [def |-> TRUE, s |-> s]

\* !v is false: neither undefined nor the empty string
truthy(v) == v.def /\ v.s # <<>>

\* data.k of a front-matter object
prop(data, k) == IF k \in DOMAIN data THEN Str(data[k]) ELSE Undefined

\* a < b on two strings: lexicographic on code units, a proper prefix is smaller
strLess(a, b) ==
  \E i \in 1..(Min(Len(a), Len(b)) + 1) :
    /\ \A j \in 1..(i - 1) : a[j] = b[j]
    /\ \/ i > Len(a) /\ i <= Len(b)
       \/ i <= Len(a) /\ i <= Len(b) /\ a[i] < b[i]

\* fileName.endsWith('.md')
endsWithMd(fileName) ==
  /\ Len(fileName) >= Len(DotMd)
  /\ SubSeq(fileName, Len(fileName) - Len(DotMd) + 1, Len(fileName)) = DotMd

\* slugOf cutting one character too many: fileName.replace(/.\.md$/, '')
slugOfShort(fileName) == SubSeq(fileName, 1, Len(fileName) - Len(DotMd) - 1)

\* fileName.replace(/\.md$/, '')
slugOf(fileName) ==
  IF endsWithMd(fileName)
    THEN SubSeq(fileName, 1, Len(fileName) - Len(DotMd))
    ELSE fileName

\* Array.prototype.slice(start, end) with its relative (negative) indices
slice(arr, start, end) ==
  LET len == Len(arr)
      k == IF start < 0 THEN Max(len + start, 0) ELSE Min(start, len)
      final == IF end < 0 THEN Max(len + end, 0) ELSE Min(end, len)
  IN SubSeq(arr, k + 1, final)

-----------------------------------------------------------------------------
(* Texts: lines of a content file *)

Delim == [t |-> "---", k |-> "", v |-> <<>>]
\* a front-matter line  k: 'v'
KV(k, v) == [t |-> "kv", k |-> k, v |-> v]
\* a front-matter line the YAML parser rejects, such as  title: "unclosed
BadLine == [t |-> "bad", k |-> "", v |-> <<>>]
\* a markdown line of the body: a heading (k = "#") or a paragraph (k = "")
MdLine(k, v) == [t |-> "md", k |-> k, v |-> v]

RequiredKeys == {"title", "date", "excerpt"}

-----------------------------------------------------------------------------
(* gray-matter *)

\* index of the line closing the front-matter block opened on line 1,
\* Len(text) + 1 when the block is never closed
closeIndex(text) ==
  IF \E j \in 2..Len(text) : text[j].t = "---"
    THEN CHOOSE j \in 2..Len(text) :
           text[j].t = "---" /\ \A i \in 2..(j - 1) : text[i].t # "---"
    ELSE Len(text) + 1

\* matter(fileContents): {data, content}, or an exception of the YAML engine
matter(text) ==
  IF text = <<>> \/ text[1].t # "---"
    THEN [threw |-> FALSE, data |-> [k \in {} |-> <<>>], content |-> text]
    ELSE
      LET close == closeIndex(text)
          block == SubSeq(text, 2, close - 1)
          keys == {block[i].k : i \in {j \in 1..Len(block) : block[j].t = "kv"}}
          bad == \/ \E i \in 1..Len(block) : block[i].t # "kv"
                 \/ \E i, j \in 1..Len(block) : i # j /\ block[i].k = block[j].k
      IN IF bad
           THEN [threw |-> TRUE, data |-> [k \in {} |-> <<>>], content |-> <<>>]
           ELSE [threw |-> FALSE,
                 data |-> [k \in keys |->
                            block[CHOOSE i \in 1..Len(block) : block[i].k = k].v],
                 content |-> SubSeq(text, close + 1, Len(text))]

-----------------------------------------------------------------------------
(* remark().use(html).process(content).toString() *)

\* the content handed on as it is, not rendered
remarkRaw(content) == content

remarkHtml(content) ==
  [i \in 1..Len(content) |->
     [t |-> "html",
      k |-> IF content[i].t = "---" THEN "hr"
            ELSE IF content[i].k = "#" THEN "h1" ELSE "p",
      v |-> content[i].v]]

-----------------------------------------------------------------------------
(* getPlaceholderImage *)

placeholderImages == <<
  \* https://images.unsplash.com/photo-1516259762381-22954d7d3ad2?w=800&auto=format&fit=crop&q=80
  <<104, 116, 116, 112, 115, 58, 47, 47, 105, 109, 97, 103, 101, 115, 46, 117, 110, 115, 112, 108, 97, 115, 104, 46, 99, 111, 109, 47, 112, 104, 111, 116, 111, 45, 49, 53, 49, 54, 50, 53, 57, 55, 54, 50, 51, 56, 49, 45, 50, 50, 57, 53, 52, 100, 55, 100, 51, 97, 100, 50, 63, 119, 61, 56, 48, 48, 38, 97, 117, 116, 111, 61, 102, 111, 114, 109, 97, 116, 38, 102, 105, 116, 61, 99, 114, 111, 112, 38, 113, 61, 56, 48>>,
  \* https://images.unsplash.com/photo-1627398242454-45a1465c2479?w=800&auto=format&fit=crop&q=80
  <<104, 116, 116, 112, 115, 58, 47, 47, 105, 109, 97, 103, 101, 115, 46, 117, 110, 115, 112, 108, 97, 115, 104, 46, 99, 111, 109, 47, 112, 104, 111, 116, 111, 45, 49, 54, 50, 55, 51, 57, 56, 50, 52, 50, 52, 53, 52, 45, 52, 53, 97, 49, 52, 54, 53, 99, 50, 52, 55, 57, 63, 119, 61, 56, 48, 48, 38, 97, 117, 116, 111, 61, 102, 111, 114, 109, 97, 116, 38, 102, 105, 116, 61, 99, 114, 111, 112, 38, 113, 61, 56, 48>>,
  \* https://images.unsplash.com/photo-1555066931-4365d14bab8c?w=800&auto=format&fit=crop&q=80
  <<104, 116, 116, 112, 115, 58, 47, 47, 105, 109, 97, 103, 101, 115, 46, 117, 110, 115, 112, 108, 97, 115, 104, 46, 99, 111, 109, 47, 112, 104, 111, 116, 111, 45, 49, 53, 53, 53, 48, 54, 54, 57, 51, 49, 45, 52, 51, 54, 53, 100, 49, 52, 98, 97, 98, 56, 99, 63, 119, 61, 56, 48, 48, 38, 97, 117, 116, 111, 61, 102, 111, 114, 109, 97, 116, 38, 102, 105, 116, 61, 99, 114, 111, 112, 38, 113, 61, 56, 48>>,
  \* https://images.unsplash.com/photo-1542831371-29b0f74f9713?w=800&auto=format&fit=crop&q=80
  <<104, 116, 116, 112, 115, 58, 47, 47, 105, 109, 97, 103, 101, 115, 46, 117, 110, 115, 112, 108, 97, 115, 104, 46, 99, 111, 109, 47, 112, 104, 111, 116, 111, 45, 49, 53, 52, 50, 56, 51, 49, 51, 55, 49, 45, 50, 57, 98, 48, 102, 55, 52, 102, 57, 55, 49, 51, 63, 119, 61, 56, 48, 48, 38, 97, 117, 116, 111, 61, 102, 111, 114, 109, 97, 116, 38, 102, 105, 116, 61, 99, 114, 111, 112, 38, 113, 61, 56, 48>>,
  \* https://images.unsplash.com/photo-1504639725590-34d0984388bd?w=800&auto=format&fit=crop&q=80
  <<104, 116, 116, 112, 115, 58, 47, 47, 105, 109, 97, 103, 101, 115, 46, 117, 110, 115, 112, 108, 97, 115, 104, 46, 99, 111, 109, 47, 112, 104, 111, 116, 111, 45, 49, 53, 48, 52, 54, 51, 57, 55, 50, 53, 53, 57, 48, 45, 51, 52, 100, 48, 57, 56, 52, 51, 56, 56, 98, 100, 63, 119, 61, 56, 48, 48, 38, 97, 117, 116, 111, 61, 102, 111, 114, 109, 97, 116, 38, 102, 105, 116, 61, 99, 114, 111, 112, 38, 113, 61, 56, 48>>
  >>

RECURSIVE charCodeSumWeighted(_)
\* a checksum that weighs each character by its place
charCodeSumWeighted(s) ==
  IF s = <<>> THEN 0 ELSE Head(s) * Len(s) + charCodeSumWeighted(Tail(s))

RECURSIVE charCodeSum(_)
\* slug.split('').reduce((acc, char) => acc + char.charCodeAt(0), 0)
charCodeSum(s) == IF s = <<>> THEN 0 ELSE Head(s) + charCodeSum(Tail(s))

\* the image picked by the length of the slug
getPlaceholderImageByLength(slug) ==
  placeholderImages[(Len(slug) % Len(placeholderImages)) + 1]

getPlaceholderImage(slug) ==
  placeholderImages[(charCodeSum(slug) % Len(placeholderImages)) + 1]

\* data.imageUrl, without the fallback
imageUrlOfFrontMatter(data, slug) == prop(data, "imageUrl")

\* data.imageUrl || getPlaceholderImage(slug)
imageUrlOf(data, slug) ==
  IF truthy(prop(data, "imageUrl"))
    THEN prop(data, "imageUrl")
    ELSE Str(getPlaceholderImage(slug))

-----------------------------------------------------------------------------
(* The file system *)

\* A file is named by its path from postsDirectory: 'a.md' lies directly in
\* it, 's/y.md' in a subdirectory, '../x.md' in its parent directory.

\* '/'
Sep == 47
\* '.' and '..'
Dot == <<46>>
DotDot == <<46, 46>>

hasSep(s) == \E i \in 1..Len(s) : s[i] = Sep

RECURSIVE segments(_)
\* s.split('/')
segments(s) ==
  IF ~hasSep(s) THEN <<s>>
  ELSE LET k == CHOOSE i \in 1..Len(s) : s[i] = Sep /\ \A j \in 1..(i - 1) : s[j] # Sep
       IN <<SubSeq(s, 1, k - 1)>> \o segments(SubSeq(s, k + 1, Len(s)))

RECURSIVE resolve(_, _)
\* the normalization of path.join: empty and '.' segments are dropped, a
\* '..' segment takes back the segment before it, or climbs to the parent
resolve(segs, stack) ==
  IF segs = <<>> THEN stack
  ELSE LET h == Head(segs)
       IN IF h = <<>> \/ h = Dot THEN resolve(Tail(segs), stack)
          ELSE IF h = DotDot /\ stack # <<>> /\ stack[Len(stack)] # DotDot
            THEN resolve(Tail(segs), SubSeq(stack, 1, Len(stack) - 1))
          ELSE resolve(Tail(segs), Append(stack, h))

RECURSIVE joined(_)
\* segs.join('/')
joined(segs) ==
  IF segs = <<>> THEN <<>>
  ELSE IF Len(segs) = 1 THEN segs[1]
  ELSE segs[1] \o <<Sep>> \o joined(Tail(segs))

\* path.join(postsDirectory, fileName), as a path from postsDirectory
pathJoin(fileName) ==
  IF ~hasSep(fileName) /\ fileName # <<>> /\ fileName # Dot THEN fileName
  ELSE joined(resolve(segments(fileName), <<>>))

\* fs.readdir(postsDirectory): the names of the entries that lie directly in
\* the directory, or [] after an error
readdir(ok, fs) ==
  IF ok THEN LET direct == SelectSeq(fs, LAMBDA f : ~hasSep(f.name))
             IN [i \in 1..Len(direct) |-> direct[i].name]
  ELSE <<>>

\* fs.readFile(path.join(postsDirectory, fileName), 'utf8'): err, or the text
readFile(fs, fileName) ==
  LET fullPath == pathJoin(fileName)
  IN IF \E i \in 1..Len(fs) : fs[i].name = fullPath /\ fs[i].readable
       THEN [err |-> FALSE,
             data |-> fs[CHOOSE i \in 1..Len(fs) : fs[i].name = fullPath].text]
       ELSE [err |-> TRUE, data |-> <<>>]

-----------------------------------------------------------------------------
(* Posts *)

NoPost ==
  [slug |-> <<>>, title |-> Undefined, date |-> Undefined, excerpt |-> Undefined,
   content |-> <<>>, imageUrl |-> Undefined]

\* hasRequiredFields, forgetting the excerpt
hasRequiredFieldsButExcerpt(data) ==
  truthy(prop(data, "title")) /\ truthy(prop(data, "date"))

\* hasRequiredFields, asking for the keys and not for their values
hasRequiredKeys(data) ==
  "title" \in DOMAIN data /\ "date" \in DOMAIN data /\ "excerpt" \in DOMAIN data

\* !data.title || !data.date || !data.excerpt  is false
hasRequiredFields(data) ==
  truthy(prop(data, "title")) /\ truthy(prop(data, "date")) /\ truthy(prop(data, "excerpt"))

\* loadFile, a failed read rejecting its promise: reject(err) for resolve('')
loadFileReadRejects(fs, fileName) ==
  LET slug == slugOf(fileName)
      read == readFile(fs, fileName)
      parsed == matter(read.data)
  IN IF read.err THEN [st |-> "throw", post |-> NoPost]
     ELSE IF read.data = <<>> THEN [st |-> "null", post |-> NoPost]
     ELSE IF parsed.threw THEN [st |-> "throw", post |-> NoPost]
     ELSE IF ~hasRequiredFields(parsed.data) THEN [st |-> "null", post |-> NoPost]
     ELSE [st |-> "post",
           post |-> [slug |-> slug,
                     title |-> prop(parsed.data, "title"),
                     date |-> prop(parsed.data, "date"),
                     excerpt |-> prop(parsed.data, "excerpt"),
                     content |-> parsed.content,
                     imageUrl |-> imageUrlOf(parsed.data, slug)]]

\* the async callback of fileNames.map: a Post, null, or an exception
loadFile(fs, fileName) ==
  LET slug == slugOf(fileName)
      read == readFile(fs, fileName)
      fileContents == IF read.err THEN <<>> ELSE read.data
      parsed == matter(fileContents)
  IN IF fileContents = <<>> THEN [st |-> "null", post |-> NoPost]
     ELSE IF parsed.threw THEN [st |-> "throw", post |-> NoPost]
     ELSE IF ~hasRequiredFields(parsed.data) THEN [st |-> "null", post |-> NoPost]
     ELSE [st |-> "post",
           post |-> [slug |-> slug,
                     title |-> prop(parsed.data, "title"),
                     date |-> prop(parsed.data, "date"),
                     excerpt |-> prop(parsed.data, "excerpt"),
                     content |-> parsed.content,
                     imageUrl |-> imageUrlOf(parsed.data, slug)]]

-----------------------------------------------------------------------------
(* Array.prototype.sort as the engine runs it on fewer than 64 elements:  *)
(* the leading run is found (and reversed when it descends), then the     *)
(* remaining elements are placed by binary insertion.                      *)

\* compareFn with the comparison turned round
compareFnAscending(a, b) == IF strLess(b.date.s, a.date.s) THEN 1 ELSE -1

\* (a, b) => (a.date < b.date ? 1 : -1)
compareFn(a, b) == IF strLess(a.date.s, b.date.s) THEN 1 ELSE -1

reverse(arr) == [i \in 1..Len(arr) |-> arr[Len(arr) + 1 - i]]

RECURSIVE runEnd(_, _, _)
\* the last index of the run that starts at 1, looking on from idx
runEnd(arr, idx, isDescending) ==
  IF idx > Len(arr) THEN Len(arr)
  ELSE LET order == compareFn(arr[idx], arr[idx - 1])
       IN IF (isDescending /\ order >= 0) \/ (~isDescending /\ order < 0)
            THEN idx - 1
            ELSE runEnd(arr, idx + 1, isDescending)

countAndMakeRun(arr) ==
  LET isDescending == compareFn(arr[2], arr[1]) < 0
      runLength == runEnd(arr, 3, isDescending)
  IN [arr |-> IF isDescending
                THEN reverse(SubSeq(arr, 1, runLength)) \o SubSeq(arr, runLength + 1, Len(arr))
                ELSE arr,
      runLength |-> runLength]

RECURSIVE binarySearch(_, _, _, _)
\* where pivot belongs among arr[left..right-1]
binarySearch(arr, pivot, left, right) ==
  IF left >= right THEN left
  ELSE LET mid == left + ((right - left) \div 2)
       IN IF compareFn(pivot, arr[mid]) < 0
            THEN binarySearch(arr, pivot, left, mid)
            ELSE binarySearch(arr, pivot, mid + 1, right)

RECURSIVE binaryInsertionSort(_, _)
\* arr[1..start-1] is sorted; places arr[start], arr[start+1], ...
binaryInsertionSort(arr, start) ==
  IF start > Len(arr) THEN arr
  ELSE LET pivot == arr[start]
           left == binarySearch(arr, pivot, 1, start)
       IN binaryInsertionSort(
            SubSeq(arr, 1, left - 1) \o <<pivot>> \o SubSeq(arr, left, start - 1)
              \o SubSeq(arr, start + 1, Len(arr)),
            start + 1)

sortByDate(arr) ==
  IF Len(arr) < 2 THEN arr
  ELSE LET run == countAndMakeRun(arr)
       IN binaryInsertionSort(run.arr, run.runLength + 1)

-----------------------------------------------------------------------------
(* The three operations *)

ResultOk(r) == r.st # "null"

\* getAllPosts(): the sorted list, or the rejection of Promise.all
getAllPosts(ok, fs) ==
  LET fileNames == readdir(ok, fs)
      mdNames == SelectSeq(fileNames, endsWithMd)
      allPosts == [i \in 1..Len(mdNames) |-> loadFile(fs, mdNames[i])]
      kept == SelectSeq(allPosts, ResultOk)
  IN IF \E i \in 1..Len(allPosts) : allPosts[i].st = "throw"
       THEN [threw |-> TRUE, posts |-> <<>>]
       ELSE [threw |-> FALSE,
             posts |-> sortByDate([i \in 1..Len(kept) |-> kept[i].post])]

POSTS_PER_PAGE == 10

\* totalPagesOf, rounding down
totalPagesFloor(totalPosts) == totalPosts \div POSTS_PER_PAGE

\* Math.ceil(totalPosts / POSTS_PER_PAGE)
totalPagesOf(totalPosts) == (totalPosts + POSTS_PER_PAGE - 1) \div POSTS_PER_PAGE

\* getPaginatedPosts, taking pages to count from 0
getPaginatedPostsFromZero(all, page) ==
  IF all.threw
    THEN [threw |-> TRUE, posts |-> <<>>, totalPages |-> 0, currentPage |-> page]
    ELSE [threw |-> FALSE,
          posts |-> slice(all.posts, page * POSTS_PER_PAGE, (page + 1) * POSTS_PER_PAGE),
          totalPages |-> totalPagesOf(Len(all.posts)),
          currentPage |-> page]

\* getPaginatedPosts, the end of the slice one too far
getPaginatedPostsLongSlice(all, page) ==
  IF all.threw
    THEN [threw |-> TRUE, posts |-> <<>>, totalPages |-> 0, currentPage |-> page]
    ELSE [threw |-> FALSE,
          posts |-> slice(all.posts, (page - 1) * POSTS_PER_PAGE, page * POSTS_PER_PAGE + 1),
          totalPages |-> totalPagesOf(Len(all.posts)),
          currentPage |-> page]

\* getPaginatedPosts(page), given what the awaited getAllPosts() gave
getPaginatedPosts(all, page) ==
  IF all.threw
    THEN [threw |-> TRUE, posts |-> <<>>, totalPages |-> 0, currentPage |-> page]
    ELSE
      LET startIndex == (page - 1) * POSTS_PER_PAGE
          endIndex == startIndex + POSTS_PER_PAGE
      IN [threw |-> FALSE,
          posts |-> slice(all.posts, startIndex, endIndex),
          totalPages |-> totalPagesOf(Len(all.posts)),
          currentPage |-> page]

\* readPost, checking the required fields as getAllPosts does
readPostValidated(fs, slug) ==
  LET read == readFile(fs, slug \o DotMd)
      parsed == matter(read.data)
  IN IF read.err \/ parsed.threw \/ ~hasRequiredFields(parsed.data)
       THEN [st |-> "throw", post |-> NoPost]
       ELSE [st |-> "post",
             post |-> [slug |-> slug,
                       title |-> prop(parsed.data, "title"),
                       date |-> prop(parsed.data, "date"),
                       excerpt |-> prop(parsed.data, "excerpt"),
                       content |-> remarkHtml(parsed.content),
                       imageUrl |-> imageUrlOf(parsed.data, slug)]]

\* readPost, reading the file named by the slug itself, without '.md'
readPostBarePath(fs, slug) ==
  LET read == readFile(fs, slug)
      parsed == matter(read.data)
  IN IF read.err \/ parsed.threw THEN [st |-> "throw", post |-> NoPost]
     ELSE [st |-> "post",
           post |-> [slug |-> slug,
                     title |-> prop(parsed.data, "title"),
                     date |-> prop(parsed.data, "date"),
                     excerpt |-> prop(parsed.data, "excerpt"),
                     content |-> remarkHtml(parsed.content),
                     imageUrl |-> imageUrlOf(parsed.data, slug)]]

\* the body of the try block of getPostBySlug: a Post, or an exception
readPost(fs, slug) ==
  LET read == readFile(fs, slug \o DotMd)
      parsed == matter(read.data)
  IN IF read.err \/ parsed.threw THEN [st |-> "throw", post |-> NoPost]
     ELSE [st |-> "post",
           post |-> [slug |-> slug,
                     title |-> prop(parsed.data, "title"),
                     date |-> prop(parsed.data, "date"),
                     excerpt |-> prop(parsed.data, "excerpt"),
                     content |-> remarkHtml(parsed.content),
                     imageUrl |-> imageUrlOf(parsed.data, slug)]]

\* getPostBySlug without its try and catch
getPostBySlugUncaught(fs, slug) == readPost(fs, slug)

\* getPostBySlug(slug): try { ... } catch (error) { return null }
getPostBySlug(fs, slug) ==
  LET r == readPost(fs, slug)
  IN IF r.st = "throw" THEN [st |-> "null", post |-> NoPost] ELSE r

-----------------------------------------------------------------------------
(* The page query parameter: Number(value) || 1 *)

\* a JavaScript number: NaN, or the integer n
NaN == [nan |-> TRUE, n |-> 0]
Num(n) == [nan |-> FALSE, n |-> n]

RECURSIVE decimal(_)
\* the value of a string of decimal digits
decimal(s) ==
  IF s = <<>> THEN 0
  ELSE decimal(SubSeq(s, 1, Len(s) - 1)) * 10 + (s[Len(s)] - 48)

\* Number(s) of a string s made of an optional sign and decimal digits, of the
\* empty string (0) and of text that is no number (NaN); strings with white
\* space, a fraction, an exponent, a radix prefix or Infinity are not drawn
StringToNumber(s) ==
  LET signed == s # <<>> /\ s[1] \in {43, 45}
      digits == IF signed THEN Tail(s) ELSE s
  IN IF s = <<>> THEN Num(0)
     ELSE IF digits # <<>> /\ \A i \in 1..Len(digits) : digits[i] \in 48..57
       THEN Num(IF s[1] = 45 THEN 0 - decimal(digits) ELSE decimal(digits))
       ELSE NaN

\* Number(searchParams.get('page')): get gives null for an absent parameter,
\* and Number(null) is 0
NumberOfGet(query) == IF query.def THEN StringToNumber(query.s) ELSE Num(0)

\* Number(searchParams.page): the property is undefined for an absent
\* parameter, and Number(undefined) is NaN
NumberOfProp(query) == IF query.def THEN StringToNumber(query.s) ELSE NaN

\* x || 0
orZero(x) == IF x.nan \/ x.n = 0 THEN 0 ELSE x.n

\* x || 1: 1 for the falsy numbers NaN and 0
orOne(x) == IF x.nan \/ x.n = 0 THEN 1 ELSE x.n

-----------------------------------------------------------------------------
(* What a request is answered with *)

NoResponse ==
  [handler |-> "none", query |-> Undefined, status |-> 0, view |-> "none",
   posts |-> <<>>, totalPages |-> 0, currentPage |-> 0, post |-> NoPost]

\* the answer of GET and of Home to what getPaginatedPosts(page) gave: its
\* three fields, or the error answer of the framework when it rejected
listingResponse(handler, query, paginatedPosts) ==
  IF paginatedPosts.threw
    THEN [NoResponse EXCEPT !.handler = handler, !.query = query,
                            !.status = 500, !.view = "error"]
    ELSE [NoResponse EXCEPT !.handler = handler, !.query = query,
                            !.status = 200,
                            !.view = IF handler = "GET" THEN "json" ELSE "home",
                            !.posts = paginatedPosts.posts,
                            !.totalPages = paginatedPosts.totalPages,
                            !.currentPage = paginatedPosts.currentPage]

\* PostPage without  if (!post): reading post.imageUrl of null throws
postResponseUnchecked(slug, r) ==
  IF r.st = "null"
    THEN [NoResponse EXCEPT !.handler = "PostPage", !.query = Str(slug),
                            !.status = 500, !.view = "error"]
    ELSE [NoResponse EXCEPT !.handler = "PostPage", !.query = Str(slug),
                            !.status = 200, !.view = "post", !.post = r.post]

\* what PostPage returns for the result r of getPostBySlug(params.slug)
postResponse(slug, r) ==
  IF r.st = "null"
    THEN [NoResponse EXCEPT !.handler = "PostPage", !.query = Str(slug),
                            !.status = 200, !.view = "notFound"]
    ELSE [NoResponse EXCEPT !.handler = "PostPage", !.query = Str(slug),
                            !.status = 200, !.view = "post",
                            !.post = [NoPost EXCEPT !.title = r.post.title,
                                                    !.date = r.post.date,
                                                    !.imageUrl = r.post.imageUrl,
                                                    !.content = r.post.content]]

-----------------------------------------------------------------------------
(* Content directories *)

\* "T", "E", "/i", "H": a title, an excerpt, an image path, a heading
TitleT == <<84>>
ExcerptE == <<69>>
ImageI == <<47, 105>>
Body == <<MdLine("#", <<72>>), MdLine("", <<112>>)>>

\* the dates "10" and "2": in this order under the lexical <
Dates == {<<49, 48>>, <<50>>}

frontMatter(fields) == <<Delim>> \o fields \o <<Delim>> \o Body

validText(date) ==
  frontMatter(<<KV("title", TitleT), KV("date", date), KV("excerpt", ExcerptE)>>)

validTextWithImage(date) ==
  frontMatter(<<KV("title", TitleT), KV("date", date), KV("excerpt", ExcerptE),
                KV("imageUrl", ImageI)>>)

\* a text whose front matter lacks the key k
missingText(k) ==
  frontMatter(SelectSeq(<<KV("title", TitleT), KV("date", <<50>>), KV("excerpt", ExcerptE)>>,
                        LAMBDA line : line.k # k))

\* title: ''
emptyTitleText ==
  frontMatter(<<KV("title", <<>>), KV("date", <<50>>), KV("excerpt", ExcerptE)>>)

\* imageUrl: ''
emptyImageText ==
  frontMatter(<<KV("title", TitleT), KV("date", <<50>>), KV("excerpt", ExcerptE),
                KV("imageUrl", <<>>)>>)

\* a front-matter block the YAML parser rejects
badYamlText == frontMatter(<<KV("title", TitleT), BadLine>>)

Texts ==
  {validText(d) : d \in Dates} \cup {validTextWithImage(<<50>>)}
    \cup {missingText(k) : k \in RequiredKeys}
    \cup {emptyTitleText, emptyImageText, badYamlText, Body, <<>>}

\* a.md, b.md, c.md and amd: the names a small directory draws from
Names == <<<<97>> \o DotMd, <<98>> \o DotMd, <<99>> \o DotMd, <<97, 109, 100>>>>

\* what a directory entry may be: a readable file with a text, or an unreadable one
Contents ==
  {[readable |-> TRUE, text |-> t] : t \in Texts}
    \cup {[readable |-> FALSE, text |-> <<>>]}

\* the contents drawn for the i-th name: anything for a.md, b.md and c.md,
\* a complete post for amd
ContentsOf(i) ==
  IF endsWithMd(Names[i]) THEN Contents
  ELSE {[readable |-> TRUE, text |-> validText(<<50>>)]}

\* the i-th file of a long listing: a valid post, dated by the pattern
pageFile(i, pattern, special) ==
  LET date == IF pattern = 1 THEN <<49>>
              ELSE IF pattern = 2 THEN <<49 + (i % 3)>>
              ELSE <<48 + (i \div 10), 48 + (i % 10)>>
  IN [name |-> <<96 + i>> \o DotMd,
      readable |-> ~(i = 2 /\ special = "unreadable"),
      text |-> IF i = 2 /\ special = "missing"
                 THEN missingText("excerpt")
                 ELSE validTextWithImage(date)]

\* the page arguments the callers pass: from -1 to beyond the last page
PageArgs == -1..((Len(files) \div POSTS_PER_PAGE) + 2)
\* "a" and "z"
SlugArgs == {<<97>>, <<122>>}

-----------------------------------------------------------------------------
(* The state machine *)

EmptyCache == [x \in {} |-> 0]

InitCaches ==
  /\ cacheAll = <<>>
  /\ cachePage = EmptyCache
  /\ cacheSlug = EmptyCache

\* any directory of at most MaxFiles entries, in the order of Names; one that
\* cannot be listed holds at most a file
InitFiles ==
  /\ dirOk \in BOOLEAN
  /\ \E sel \in SUBSET (1..Len(Names)) :
       /\ Cardinality(sel) <= MaxFiles
       /\ dirOk \/ Cardinality(sel) <= 1
       /\ LET idx == SelectSeq([i \in 1..Len(Names) |-> i], LAMBDA i : i \in sel)
          IN \E c \in [1..Len(idx) -> Contents] :
               /\ \A i \in 1..Len(idx) : c[i] \in ContentsOf(idx[i])
               /\ files = [i \in 1..Len(idx) |->
                            [name |-> Names[idx[i]], readable |-> c[i].readable,
                             text |-> c[i].text]]

\* a long listing of up to MaxPosts posts a.md, b.md, ..., the second of which
\* may lack its excerpt or be unreadable
InitPage ==
  /\ dirOk = TRUE
  /\ \E n \in 0..MaxPosts, pattern \in 1..3, special \in {"none", "missing", "unreadable"} :
       files = [i \in 1..n |-> pageFile(i, pattern, special)]

\* no call of getAllPosts() under way
NoCall ==
  [phase |-> "idle", names |-> <<>>, pending |-> {}, order |-> <<>>,
   results |-> <<>>, outcome |-> [threw |-> FALSE, posts |-> <<>>]]

\* no request taken, no image asked for, no call under way
InitIdle ==
  /\ request = 0
  /\ response = NoResponse
  /\ imageCalls = <<>>
  /\ inFlight = NoCall

Init == (InitFiles \/ InitPage) /\ InitCaches /\ InitIdle

\* the awaited getAllPosts() of a function that is not memoized
awaitAllPostsFresh == getAllPosts(dirOk, files)

\* the awaited getAllPosts(): the memoized result, or a first computation
awaitAllPosts == IF cacheAll = <<>> THEN getAllPosts(dirOk, files) ELSE cacheAll[1]

\* CallGetAllPosts, deleting the files it could not read
CallGetAllPostsPruning ==
  /\ cacheAll' = <<awaitAllPosts>>
  /\ files' = SelectSeq(files, LAMBDA f : f.readable)
  /\ UNCHANGED <<dirOk, cachePage, cacheSlug, request, response, imageCalls, inFlight>>

CallGetAllPosts ==
  /\ cacheAll' = <<awaitAllPosts>>
  /\ UNCHANGED <<dirOk, files, cachePage, cacheSlug, request, response, imageCalls, inFlight>>

CallGetPaginatedPosts(page) ==
  IF page \in DOMAIN cachePage
    THEN UNCHANGED vars
    ELSE /\ cacheAll' = <<awaitAllPosts>>
         /\ cachePage' = [p \in DOMAIN cachePage \cup {page} |->
                            IF p = page THEN getPaginatedPosts(awaitAllPosts, page)
                            ELSE cachePage[p]]
         /\ UNCHANGED <<dirOk, files, cacheSlug, request, response, imageCalls, inFlight>>

CallGetPostBySlug(slug) ==
  IF slug \in DOMAIN cacheSlug
    THEN UNCHANGED vars
    ELSE /\ cacheSlug' = [s \in DOMAIN cacheSlug \cup {slug} |->
                            IF s = slug THEN getPostBySlug(files, slug)
                            ELSE cacheSlug[s]]
         /\ UNCHANGED <<dirOk, files, cacheAll, cachePage, request, response, imageCalls, inFlight>>

Next ==
  \/ CallGetAllPosts
  \/ \E page \in PageArgs : CallGetPaginatedPosts(page)
  \/ \E slug \in SlugArgs : CallGetPostBySlug(slug)

Spec == Init /\ [][Next]_vars

-----------------------------------------------------------------------------
(* The server: requests, and a content directory that changes under it.   *)
(* cache() of react memoizes for one server request: each request starts  *)
(* with empty memos. A handler's step is the whole request; the calls     *)
(* above, taken after it, are further calls made while it is rendered.    *)

\* the values of the page parameter: absent, '', 'x', '0', '1', '2', '-1'
Queries ==
  {Undefined, Str(<<>>), Str(<<120>>), Str(<<48>>), Str(<<49>>), Str(<<50>>),
   Str(<<45, 49>>)}

\* the texts a file of the server's directory is written with
ServerTexts == {validText(<<50>>), badYamlText}

\* a directory of at most MaxServerFiles files a.md, b.md, ...
InitServer ==
  /\ dirOk = TRUE
  /\ \E n \in 0..MaxServerFiles :
       \E c \in [1..n -> ServerTexts] :
         files = [i \in 1..n |-> [name |-> Names[i], readable |-> TRUE, text |-> c[i]]]
  /\ InitCaches
  /\ InitIdle

\* the memos of a request that called getPaginatedPosts(page) and nothing else
listingRequest(handler, query, page) ==
  LET all == getAllPosts(dirOk, files)
      paginatedPosts == getPaginatedPosts(all, page)
  IN /\ request < MaxRequests
     /\ request' = request + 1
     /\ cacheAll' = <<all>>
     /\ cachePage' = (page :> paginatedPosts)
     /\ cacheSlug' = EmptyCache
     /\ response' = listingResponse(handler, query, paginatedPosts)
     /\ UNCHANGED <<dirOk, files, imageCalls, inFlight>>

\* GET(request): the listing endpoint
GET(query) == listingRequest("GET", query, orOne(NumberOfGet(query)))

\* Home({ searchParams }): the home page
Home(query) == listingRequest("Home", query, orOne(NumberOfProp(query)))

\* PostPage({ params }): the page of a post
PostPage(slug) ==
  LET post == getPostBySlug(files, slug)
  IN /\ request < MaxRequests
     /\ request' = request + 1
     /\ cacheAll' = <<>>
     /\ cachePage' = EmptyCache
     /\ cacheSlug' = (slug :> post)
     /\ response' = postResponse(slug, post)
     /\ UNCHANGED <<dirOk, files, imageCalls, inFlight>>

\* a file is added to the content directory
AddFile ==
  /\ Len(files) < MaxServerFiles
  /\ \E t \in ServerTexts :
       files' = Append(files, [name |-> Names[Len(files) + 1], readable |-> TRUE,
                               text |-> t])
  /\ UNCHANGED <<dirOk, cacheAll, cachePage, cacheSlug, request, response, imageCalls, inFlight>>

\* the last file is removed from the content directory
RemoveFile ==
  /\ files # <<>>
  /\ files' = SubSeq(files, 1, Len(files) - 1)
  /\ UNCHANGED <<dirOk, cacheAll, cachePage, cacheSlug, request, response, imageCalls, inFlight>>

\* a file of the content directory is rewritten
ChangeFile ==
  /\ \E i \in 1..Len(files) :
       \E t \in ServerTexts \ {files[i].text} :
         files' = [files EXCEPT ![i].text = t]
  /\ UNCHANGED <<dirOk, cacheAll, cachePage, cacheSlug, request, response, imageCalls, inFlight>>

NextServer ==
  \/ \E query \in Queries : GET(query)
  \/ \E query \in Queries : Home(query)
  \/ \E slug \in SlugArgs : PostPage(slug)
  \/ AddFile
  \/ RemoveFile
  \/ ChangeFile
  \/ CallGetAllPosts
  \/ \E page \in PageArgs : CallGetPaginatedPosts(page)

SpecServer == InitServer /\ [][NextServer]_vars

-----------------------------------------------------------------------------
(* getPlaceholderImage, called on its own *)

\* '-', 'a', 'e': code units with the remainders 0, 2 and 1 modulo 5
SlugChars == {45, 97, 101}

\* every slug of at most MaxSlugLen of these characters, the empty slug included
Slugs == UNION {[1..n -> SlugChars] : n \in 0..MaxSlugLen}

InitImage ==
  /\ dirOk = TRUE
  /\ files = <<>>
  /\ InitCaches
  /\ InitIdle

\* one of two calls of getPlaceholderImage(slug)
CallGetPlaceholderImage(slug) ==
  /\ Len(imageCalls) < 2
  /\ imageCalls' = Append(imageCalls, [slug |-> slug, url |-> getPlaceholderImage(slug)])
  /\ UNCHANGED <<dirOk, files, cacheAll, cachePage, cacheSlug, request, response, inFlight>>

NextImage == \E slug \in Slugs : CallGetPlaceholderImage(slug)

SpecImage == InitImage /\ [][NextImage]_vars

-----------------------------------------------------------------------------
(* The placeholder image generator: the image file it makes for a post *)

\* String.prototype.toLowerCase on the letters A to Z
toLowerCase(s) == [i \in 1..Len(s) |-> IF s[i] \in 65..90 THEN s[i] + 32 ELSE s[i]]

\* String.prototype.indexOf, counted from 1; 0 when pat does not occur
indexOf(s, pat) ==
  LET at == {i \in 1..(Len(s) - Len(pat) + 1) : SubSeq(s, i, i + Len(pat) - 1) = pat}
  IN IF at = {} THEN 0 ELSE CHOOSE i \in at : \A j \in at : i <= j

\* s.replace(pat, rep) for a string pat: the first occurrence only
replaceFirst(s, pat, rep) ==
  LET i == indexOf(s, pat)
  IN IF i = 0 THEN s
     ELSE SubSeq(s, 1, i - 1) \o rep \o SubSeq(s, i + Len(pat), Len(s))

\* s.replace(/ /g, '-')
replaceSpaces(s) == [i \in 1..Len(s) |-> IF s[i] = 32 THEN 45 ELSE s[i]]

\* the slug with its hyphens taken out: s.replace(/-/g, '') after the rest
generatorSlugNoHyphens(file) ==
  SelectSeq(replaceSpaces(toLowerCase(replaceFirst(file, DotMd, <<>>))),
            LAMBDA c : c # 45)

\* file.replace('.md', '').toLowerCase().replace(/ /g, '-')
generatorSlug(file) == replaceSpaces(toLowerCase(replaceFirst(file, DotMd, <<>>)))

\* 'public/images', below the working directory
imagesDir == <<112, 117, 98, 108, 105, 99, 47, 105, 109, 97, 103, 101, 115>>

\* path.join(imagesDir, `${slug}.jpg`)
imagePath(file) == imagesDir \o <<47>> \o generatorSlug(file) \o <<46, 106, 112, 103>>

\* 'A', 'a', ' ', '-'
RawChars == {65, 97, 32, 45}

\* every file stem of at most MaxSlugLen of these characters
RawSlugs == UNION {[1..n -> RawChars] : n \in 0..MaxSlugLen}

\* the generator comes to the file slug.md: one of two files it is run on
GenerateImage(slug) ==
  /\ Len(imageCalls) < 2
  /\ imageCalls' = Append(imageCalls, [slug |-> slug, url |-> imagePath(slug \o DotMd)])
  /\ UNCHANGED <<dirOk, files, cacheAll, cachePage, cacheSlug, request, response, inFlight>>

NextGenerator == \E slug \in RawSlugs : GenerateImage(slug)

SpecGenerator == InitImage /\ [][NextGenerator]_vars

-----------------------------------------------------------------------------
(* getAllPosts() read by read: fs.readdir is issued and calls back; the    *)
(* callbacks of map issue one fs.readFile each, which call back in any     *)
(* order, or never; Promise.all settles once every callback has returned   *)
(* or one has thrown.                                                      *)

\* a read that has not called back yet
Pending == [st |-> "pending", post |-> NoPost]

\* the values collected in the order the reads completed
gatheredAsCompleted(results, order) == [k \in 1..Len(order) |-> results[order[k]]]

\* the array Promise.all resolves with: each callback's value at the place
\* of its file name, whatever the order the reads completed in
gathered(results, order) == results

\* what getAllPosts() settles with, given the values of the callbacks
settled(results, order) ==
  LET allPosts == gathered(results, order)
      kept == SelectSeq(allPosts, ResultOk)
  IN IF \E i \in 1..Len(results) : results[i].st = "throw"
       THEN [threw |-> TRUE, posts |-> <<>>]
       ELSE [threw |-> FALSE,
             posts |-> sortByDate([i \in 1..Len(kept) |-> kept[i].post])]

\* what a file of such a directory may be
ReadContents ==
  {[readable |-> TRUE, text |-> t] : t \in {validText(d) : d \in Dates} \cup {badYamlText}}
    \cup {[readable |-> FALSE, text |-> <<>>]}

\* a directory of at most MaxReadFiles entries, in the order of Names
InitReads ==
  /\ dirOk \in BOOLEAN
  /\ \E n \in 0..MaxReadFiles :
       /\ dirOk \/ n <= 1
       /\ \E c \in [1..n -> ReadContents] :
            files = [i \in 1..n |-> [name |-> Names[i], readable |-> c[i].readable,
                                      text |-> c[i].text]]
  /\ InitCaches
  /\ InitIdle

\* getAllPosts() is called: fs.readdir(postsDirectory, ...) is issued
StartGetAllPosts ==
  /\ inFlight.phase = "idle"
  /\ inFlight' = [inFlight EXCEPT !.phase = "readdir"]
  /\ UNCHANGED <<dirOk, files, cacheAll, cachePage, cacheSlug, request, response,
                 imageCalls>>

\* fs.readdir calls back: the names are filtered and a read is issued for each
ReaddirCallback ==
  /\ inFlight.phase = "readdir"
  /\ LET names == SelectSeq(readdir(dirOk, files), endsWithMd)
     IN inFlight' = [inFlight EXCEPT !.phase = "reading",
                                     !.names = names,
                                     !.pending = 1..Len(names),
                                     !.results = [i \in 1..Len(names) |-> Pending]]
  /\ UNCHANGED <<dirOk, files, cacheAll, cachePage, cacheSlug, request, response,
                 imageCalls>>

\* fs.readFile of the i-th name calls back, and the callback of map runs on
ReadFileCallback(i) ==
  /\ inFlight.phase \in {"reading", "settled"}
  /\ i \in inFlight.pending
  /\ inFlight' = [inFlight EXCEPT !.pending = @ \ {i},
                                   !.order = Append(@, i),
                                   !.results[i] = loadFile(files, inFlight.names[i])]
  /\ UNCHANGED <<dirOk, files, cacheAll, cachePage, cacheSlug, request, response,
                 imageCalls>>

\* Promise.all settles, and getAllPosts() with it: every callback has
\* returned, or one has thrown
Settle ==
  /\ inFlight.phase = "reading"
  /\ \/ inFlight.pending = {}
     \/ \E i \in 1..Len(inFlight.results) : inFlight.results[i].st = "throw"
  /\ inFlight' = [inFlight EXCEPT !.phase = "settled",
                                   !.outcome = settled(inFlight.results, inFlight.order)]
  /\ UNCHANGED <<dirOk, files, cacheAll, cachePage, cacheSlug, request, response,
                 imageCalls>>

NextReads ==
  \/ StartGetAllPosts
  \/ ReaddirCallback
  \/ \E i \in 1..MaxReadFiles : ReadFileCallback(i)
  \/ Settle

SpecReads == InitReads /\ [][NextReads]_vars

-----------------------------------------------------------------------------
(* Slugs that are paths: PostPage hands params.slug to getPostBySlug as it *)
(* comes, and getPostBySlug joins it to postsDirectory.                    *)

\* a.md in the content directory, s/y.md in a subdirectory of it, ../x.md in
\* its parent (src) and ../../r.md in the directory above (the project's)
PathNames ==
  <<<<97>> \o DotMd,
    <<115, Sep, 121>> \o DotMd,
    DotDot \o <<Sep, 120>> \o DotMd,
    DotDot \o <<Sep>> \o DotDot \o <<Sep, 114>> \o DotMd>>

\* a, s/y, ../x, ../../r, s/../a, ./a and z
PathSlugs ==
  {<<97>>,
   <<115, Sep, 121>>,
   DotDot \o <<Sep, 120>>,
   DotDot \o <<Sep>> \o DotDot \o <<Sep, 114>>,
   <<115, Sep>> \o DotDot \o <<Sep, 97>>,
   Dot \o <<Sep, 97>>,
   <<122>>}

\* each of the files is there or not, and readable or not
InitPaths ==
  /\ dirOk = TRUE
  /\ \E sel \in SUBSET (1..Len(PathNames)) :
       LET idx == SelectSeq([i \in 1..Len(PathNames) |-> i], LAMBDA i : i \in sel)
       IN \E r \in [1..Len(idx) -> BOOLEAN] :
            files = [i \in 1..Len(idx) |->
                      [name |-> PathNames[idx[i]], readable |-> r[i],
                       text |-> IF r[i] THEN validText(<<50>>) ELSE <<>>]]
  /\ InitCaches
  /\ InitIdle

\* getPostBySlug(params.slug), as PostPage calls it
LookupPath(slug) ==
  /\ Cardinality(DOMAIN cacheSlug) < MaxLookups
  /\ CallGetPostBySlug(slug)

NextPaths ==
  \/ CallGetAllPosts
  \/ \E slug \in PathSlugs : LookupPath(slug)

SpecPaths == InitPaths /\ [][NextPaths]_vars

-----------------------------------------------------------------------------
(* What the claims speak of *)

\* the list getAllPosts() gave, once it was called (empty when it rejected)
listed == cacheAll[1].posts

\* the places of the Post with this slug in the list
placesOf(slug) == {j \in 1..Len(listed) : listed[j].slug = slug}

slugsOf(posts) == [j \in 1..Len(posts) |-> posts[j].slug]

\* the front matter of the i-th file parses
parses(i) == ~matter(files[i].text).threw

\* the i-th file is a readable .md file whose front matter carries a title,
\* a date and an excerpt
complete(i) ==
  /\ endsWithMd(files[i].name)
  /\ files[i].readable
  /\ parses(i)
  /\ \A k \in RequiredKeys :
       k \in DOMAIN matter(files[i].text).data /\ matter(files[i].text).data[k] # <<>>

\* the i-th file is a readable .md file whose front matter parses and lacks
\* a title, a date or an excerpt
lacksField(i) ==
  /\ endsWithMd(files[i].name)
  /\ files[i].readable
  /\ parses(i)
  /\ \E k \in RequiredKeys : k \notin DOMAIN matter(files[i].text).data

\* the directory without the files that lack a field
withoutLacking ==
  LET keep == SelectSeq([i \in 1..Len(files) |-> i], LAMBDA i : ~lacksField(i))
  IN [j \in 1..Len(keep) |-> files[keep[j]]]

-----------------------------------------------------------------------------
(* C1 *)

\* C1: for every (readable) directory, the list of getAllPosts() holds exactly
\* one Post for each file whose name ends in '.md', is readable and carries
\* title, date and excerpt, with the file name less '.md' as its slug, and no
\* Post for a file whose name does not end in '.md'.
\* The claim as stated; it fails where another file's front matter is rejected.
C1_EveryCompleteFileListed ==
  (cacheAll # <<>> /\ dirOk) =>
    /\ \A i \in 1..Len(files) :
         complete(i) =>
           Cardinality(placesOf(SubSeq(files[i].name, 1, Len(files[i].name) - 3))) = 1
    /\ \A i \in 1..Len(files) :
         ~endsWithMd(files[i].name) => placesOf(files[i].name) = {}

-----------------------------------------------------------------------------
(* C2 *)

\* C2: a content file whose front matter lacks title, date or excerpt has no
\* Post in the result of getAllPosts(), and the result is what it would be
\* without that file: same posts, same order, same fields.
C2_LackingFileSkippedAlone ==
  cacheAll # <<>> =>
    /\ \A i \in 1..Len(files) : lacksField(i) => placesOf(slugOf(files[i].name)) = {}
    /\ cacheAll[1] = getAllPosts(dirOk, withoutLacking)

\* a.md and c.md are posts, b.md between them lacks its excerpt, and the list
\* is [c, a]
C2_Witness ==
  /\ cacheAll # <<>>
  /\ Len(files) = 3
  /\ complete(1) /\ complete(3)
  /\ lacksField(2) /\ "excerpt" \notin DOMAIN matter(files[2].text).data
  /\ slugsOf(listed) = <<slugOf(files[3].name), slugOf(files[1].name)>>

-----------------------------------------------------------------------------
(* C3 *)

\* C3: the list of getAllPosts() is sorted by date descending: no post is
\* followed by one whose date is lexically greater, equal dates included.
C3_SortedByDateDescending ==
  cacheAll # <<>> =>
    \A i, j \in 1..Len(listed) :
      i < j => ~strLess(listed[i].date.s, listed[j].date.s)

\* a list of at least three posts in which two share a date and two do not,
\* from a directory that did not enumerate them in that order
C3_Witness ==
  /\ cacheAll # <<>>
  /\ Len(listed) >= 3
  /\ \E i, j \in 1..Len(listed) : i # j /\ listed[i].date = listed[j].date
  /\ \E i, j \in 1..Len(listed) : listed[i].date # listed[j].date
  /\ \E i, j \in 1..Len(files) :
       /\ i < j /\ complete(i) /\ complete(j)
       /\ strLess(matter(files[i].text).data["date"], matter(files[j].text).data["date"])

-----------------------------------------------------------------------------
(* C4 *)

RECURSIVE concatPages(_)
\* the posts of the pages 1..n that were returned, one after the other
concatPages(n) == IF n = 0 THEN <<>> ELSE concatPages(n - 1) \o cachePage[n].posts

\* C4: once the pages 1..totalPages have all been returned, their posts, page
\* after page, are the list of getAllPosts(): same posts, same order, none
\* twice and none left out.
C4_PagesConcatenateToAll ==
  \A q \in DOMAIN cachePage :
    (~cachePage[q].threw /\ \A p \in 1..cachePage[q].totalPages : p \in DOMAIN cachePage)
      => concatPages(cachePage[q].totalPages) = listed

\* three pages were returned for a list of more than twenty posts
C4_Witness ==
  /\ {1, 2, 3} \subseteq DOMAIN cachePage
  /\ cachePage[1].totalPages = 3
  /\ Len(listed) > 2 * POSTS_PER_PAGE
  /\ cachePage[3].posts # <<>>

-----------------------------------------------------------------------------
(* C5 *)

\* C5: whatever the page, the posts of getPaginatedPosts(page) are at most
\* 10; they are exactly 10 for every page from 1 to totalPages - 1, so that
\* only the last page may hold fewer.
C5_PageSizes ==
  \A p \in DOMAIN cachePage :
    ~cachePage[p].threw =>
      /\ Len(cachePage[p].posts) <= 10
      /\ (1 <= p /\ p < cachePage[p].totalPages) => Len(cachePage[p].posts) = 10

\* a full first page and a shorter last page of the same list
C5_Witness ==
  /\ {1, 2} \subseteq DOMAIN cachePage
  /\ cachePage[2].totalPages = 2
  /\ Len(cachePage[1].posts) = 10
  /\ Len(cachePage[2].posts) \in 1..9

-----------------------------------------------------------------------------
(* C6 *)

\* a page of 1..totalPages that was returned
inRange(q) ==
  q \in DOMAIN cachePage /\ ~cachePage[q].threw /\ 1 <= q /\ q <= cachePage[q].totalPages

\* C6: getPaginatedPosts(0) and getPaginatedPosts(totalPages + 1) do not
\* throw; each returns an empty list of posts, the totalPages of the pages in
\* range, and the requested page as currentPage.
\* The claim as stated; page 0 rejects where a file's front matter is rejected.
C6_EdgePagesReturnEmpty ==
  \A p \in DOMAIN cachePage :
    (p = 0 \/ (~cacheAll[1].threw /\ p = totalPagesOf(Len(listed)) + 1)) =>
      /\ ~cachePage[p].threw
      /\ cachePage[p].posts = <<>>
      /\ cachePage[p].currentPage = p
      /\ \A q \in DOMAIN cachePage : inRange(q) => cachePage[q].totalPages = cachePage[p].totalPages

-----------------------------------------------------------------------------
(* C7 *)

\* C7: for every page <= 0 and every page > totalPages, the posts of
\* getPaginatedPosts(page) are fewer than 10: never a full page.
\* The claim as stated; page -1 of a list of twenty posts is a full page.
C7_OutOfRangeNeverFull ==
  \A p \in DOMAIN cachePage :
    (p <= 0 \/ p > cachePage[p].totalPages) => Len(cachePage[p].posts) < 10

-----------------------------------------------------------------------------
(* C8 *)

\* the least t with t * 10 >= n
ceilTenth(n) == CHOOSE t \in 0..n : t * 10 >= n /\ \A u \in 0..(t - 1) : u * 10 < n

\* C8: whatever the page, totalPages is ceil(n / 10) for the n posts of
\* getAllPosts(): the same for every page, and 0 when there is no post.
C8_TotalPages ==
  \A p \in DOMAIN cachePage :
    ~cachePage[p].threw =>
      /\ cachePage[p].totalPages = ceilTenth(Len(listed))
      /\ listed = <<>> => cachePage[p].totalPages = 0
      /\ \A q \in DOMAIN cachePage : cachePage[q].totalPages = cachePage[p].totalPages

\* eleven posts make two pages, for a page in range and for one out of range
C8_Witness ==
  /\ {-1, 1} \subseteq DOMAIN cachePage
  /\ Len(listed) = 11
  /\ cachePage[-1].totalPages = 2
  /\ cachePage[1].totalPages = 2

-----------------------------------------------------------------------------
(* C9 *)

\* the place of the file slug.md in the directory, 0 when there is none
fileOf(slug) ==
  IF \E i \in 1..Len(files) : files[i].name = slug \o DotMd
    THEN CHOOSE i \in 1..Len(files) : files[i].name = slug \o DotMd
    ELSE 0

\* C9: getPostBySlug(slug) never throws, and returns null when the file of
\* the slug does not exist, cannot be read or cannot be parsed.
C9_LookupNeverThrows ==
  \A slug \in DOMAIN cacheSlug :
    /\ cacheSlug[slug].st \in {"post", "null"}
    /\ (fileOf(slug) = 0 \/ ~files[fileOf(slug)].readable \/ ~parses(fileOf(slug)))
         => cacheSlug[slug].st = "null"

\* null came back for a file that is not there and for one that does not parse
C9_Witness ==
  /\ DOMAIN cacheSlug = SlugArgs
  /\ \E slug \in SlugArgs : fileOf(slug) = 0 /\ cacheSlug[slug].st = "null"
  /\ \E slug \in SlugArgs :
       /\ fileOf(slug) # 0 /\ files[fileOf(slug)].readable /\ ~parses(fileOf(slug))
       /\ cacheSlug[slug].st = "null"

-----------------------------------------------------------------------------
(* C10 *)

fieldOf(post, k) ==
  IF k = "title" THEN post.title ELSE IF k = "date" THEN post.date ELSE post.excerpt

\* C10: for a readable file whose front matter lacks title, date or excerpt,
\* getPostBySlug still returns a Post, the missing fields undefined, while
\* getAllPosts() leaves the file out.
C10_LookupSkipsValidation ==
  \A slug \in DOMAIN cacheSlug :
    (fileOf(slug) # 0 /\ lacksField(fileOf(slug))) =>
      /\ cacheSlug[slug].st = "post"
      /\ cacheSlug[slug].post.slug = slug
      /\ \A k \in RequiredKeys :
           k \notin DOMAIN matter(files[fileOf(slug)].text).data
             => fieldOf(cacheSlug[slug].post, k) = Undefined
      /\ cacheAll # <<>> => placesOf(slug) = {}

\* a.md lacks its excerpt only: the lookup returned it with its title, the
\* list that holds another post does not hold it
C10_Witness ==
  /\ <<97>> \in DOMAIN cacheSlug
  /\ fileOf(<<97>>) # 0
  /\ DOMAIN matter(files[fileOf(<<97>>)].text).data = {"title", "date"}
  /\ cacheSlug[<<97>>].st = "post"
  /\ cacheSlug[<<97>>].post.title = Str(TitleT)
  /\ cacheSlug[<<97>>].post.excerpt = Undefined
  /\ cacheAll # <<>>
  /\ listed # <<>>

-----------------------------------------------------------------------------
(* C11 *)

\* the file slug.md exists, can be read and its front matter parses
existing(slug) ==
  fileOf(slug) # 0 /\ files[fileOf(slug)].readable /\ parses(fileOf(slug))

\* the body of the file slug.md, as the front-matter parser splits it off
bodyOf(slug) == matter(files[fileOf(slug)].text).content

\* html is the rendering of the markdown lines md: line for line an element,
\* h1 for a heading and p for a paragraph, no markdown line left
rendered(html, md) ==
  /\ Len(html) = Len(md)
  /\ \A i \in 1..Len(md) :
       /\ html[i].t = "html"
       /\ html[i].k = (IF md[i].k = "#" THEN "h1" ELSE "p")
       /\ html[i].v = md[i].v

\* C11: for an existing slug, the content of the Post of getPostBySlug is
\* the markdown body rendered to HTML, and the content of the Post of the
\* same slug in the list of getAllPosts() is the body itself, unrendered,
\* as the front-matter parser split it off.
C11_LookupRenderedListRaw ==
  \A slug \in DOMAIN cacheSlug :
    existing(slug) =>
      /\ cacheSlug[slug].st = "post"
      /\ rendered(cacheSlug[slug].post.content, bodyOf(slug))
      /\ cacheAll # <<>> =>
           \A j \in placesOf(slug) :
             /\ listed[j].content = bodyOf(slug)
             /\ \A i \in 1..Len(listed[j].content) : listed[j].content[i].t = "md"

\* a.md is a post with a heading in its body: the lookup returned it with an
\* h1 element, the list holds it with the heading line
C11_Witness ==
  /\ <<97>> \in DOMAIN cacheSlug
  /\ existing(<<97>>)
  /\ cacheSlug[<<97>>].st = "post"
  /\ \E i \in 1..Len(cacheSlug[<<97>>].post.content) :
       cacheSlug[<<97>>].post.content[i].k = "h1"
  /\ cacheAll # <<>>
  /\ \E j \in placesOf(<<97>>) :
       \E i \in 1..Len(listed[j].content) :
         listed[j].content[i].t = "md" /\ listed[j].content[i].k = "#"

-----------------------------------------------------------------------------
(* C12 *)

\* what the front matter of the file slug.md gives for imageUrl
imageOf(slug) == prop(matter(files[fileOf(slug)].text).data, "imageUrl")

\* post has an imageUrl that is a non-empty string: the imageUrl of the front
\* matter of its file where that gives a non-empty one, else the placeholder
\* image of its slug
hasImage(post) ==
  /\ post.imageUrl.def
  /\ post.imageUrl.s # <<>>
  /\ IF imageOf(post.slug).def /\ imageOf(post.slug).s # <<>>
       THEN post.imageUrl.s = imageOf(post.slug).s
       ELSE post.imageUrl.s = getPlaceholderImage(post.slug)

\* C12: every Post of getAllPosts() and of getPostBySlug() has a present,
\* non-empty imageUrl: that of the front matter, verbatim, when the front
\* matter supplies one, and the fallback image computed from the slug when
\* it supplies none (or an empty one).
C12_ImageUrlNeverAbsent ==
  /\ cacheAll # <<>> => \A j \in 1..Len(listed) : hasImage(listed[j])
  /\ \A slug \in DOMAIN cacheSlug :
       cacheSlug[slug].st = "post" => hasImage(cacheSlug[slug].post)

\* the list holds a post with the imageUrl of its front matter, one whose
\* front matter has none and one whose front matter has an empty one; the
\* lookup returned a post whose front matter has none
C12_Witness ==
  /\ cacheAll # <<>>
  /\ \E j \in 1..Len(listed) : listed[j].imageUrl = Str(ImageI)
  /\ \E j \in 1..Len(listed) : ~imageOf(listed[j].slug).def
  /\ \E j \in 1..Len(listed) : imageOf(listed[j].slug) = Str(<<>>)
  /\ \E slug \in DOMAIN cacheSlug :
       /\ cacheSlug[slug].st = "post"
       /\ ~imageOf(slug).def
       /\ cacheSlug[slug].post.imageUrl = Str(getPlaceholderImage(slug))

-----------------------------------------------------------------------------
(* C13 *)

RECURSIVE sumTo(_, _)
\* the sum of the first n code units of s
sumTo(s, n) == IF n = 0 THEN 0 ELSE sumTo(s, n - 1) + s[n]

\* C13: getPlaceholderImage is a function of the slug alone: any two calls
\* with the same slug returned the same string, and every call returned the
\* one of the five palette URLs whose index is the sum of the slug's
\* character codes modulo 5, the empty slug included (index 0).
C13_PlaceholderDeterministic ==
  /\ \A i, j \in 1..Len(imageCalls) :
       imageCalls[i].slug = imageCalls[j].slug => imageCalls[i].url = imageCalls[j].url
  /\ \A i \in 1..Len(imageCalls) :
       LET slug == imageCalls[i].slug
       IN /\ Len(placeholderImages) = 5
          /\ \E k \in 0..4 :
               /\ k = sumTo(slug, Len(slug)) % 5
               /\ imageCalls[i].url = placeholderImages[k + 1]
          /\ slug = <<>> => imageCalls[i].url = placeholderImages[1]

\* getPlaceholderImage was called twice with the slug 'ae-', whose codes sum
\* to 243, and gave the fourth palette URL both times
C13_Witness ==
  /\ Len(imageCalls) = 2
  /\ imageCalls[1].slug = <<97, 101, 45>>
  /\ imageCalls[2].slug = <<97, 101, 45>>
  /\ imageCalls[1].url = placeholderImages[4]
  /\ imageCalls[2].url = placeholderImages[4]

-----------------------------------------------------------------------------
(* C14 *)

\* the i-th file is a .md file that cannot be read
unreadable(i) == endsWithMd(files[i].name) /\ ~files[i].readable

\* the directory without the files that cannot be read
withoutUnreadable ==
  LET keep == SelectSeq([i \in 1..Len(files) |-> i], LAMBDA i : ~unreadable(i))
  IN [j \in 1..Len(keep) |-> files[keep[j]]]

-----------------------------------------------------------------------------
(* C15 *)

\* the i-th file is a readable .md file whose front matter the parser rejects
rejected(i) == endsWithMd(files[i].name) /\ files[i].readable /\ ~parses(i)

\* C15: no failure path of getAllPosts() propagates an exception: whatever
\* the directory and the files, a file with a front-matter block the parser
\* rejects included, getAllPosts() gives a list, without the offending file
\* and with the other files.
\* The claim as stated; it fails on a file whose front matter is rejected.
C15_NoFailurePropagates ==
  cacheAll # <<>> =>
    /\ ~cacheAll[1].threw
    /\ \A i \in 1..Len(files) : rejected(i) => placesOf(slugOf(files[i].name)) = {}
    /\ dirOk =>
         \A i \in 1..Len(files) : complete(i) => placesOf(slugOf(files[i].name)) # {}

-----------------------------------------------------------------------------
(* C16 *)

-----------------------------------------------------------------------------
(* C17 *)

\* the page parameter is given and is a number written in decimal digits
numeric(query) ==
  /\ query.def
  /\ LET digits == IF query.s # <<>> /\ query.s[1] \in {43, 45} THEN Tail(query.s)
                    ELSE query.s
     IN digits # <<>> /\ \A i \in 1..Len(digits) : digits[i] \in 48..57

\* the number a numeric page parameter stands for
valueOf(query) == StringToNumber(query.s).n

\* the page the claim, as stated, has the handlers pass on
pageAsStated(query) == IF numeric(query) THEN valueOf(query) ELSE 1

\* the page the handlers pass on: 1 for the number 0 as well
pageAmended(query) ==
  IF numeric(query) /\ valueOf(query) # 0 THEN valueOf(query) ELSE 1

\* the last request was one to GET or Home, getPaginatedPosts was called with
\* page in it, and what that call returned is what the request was answered
\* with
answeredWithPage(page) ==
  response.handler \in {"GET", "Home"} =>
    /\ page \in DOMAIN cachePage
    /\ ~cachePage[page].threw =>
         /\ response.status = 200
         /\ response.currentPage = page
         /\ response.posts = cachePage[page].posts
         /\ response.totalPages = cachePage[page].totalPages
         /\ response.currentPage = cachePage[page].currentPage

\* C17, as stated: GET and Home use page 1 when the page parameter is absent
\* or not numeric, pass every numeric value on unchanged to
\* getPaginatedPosts, and answer with what that call returns.
\* It fails for the parameter 0, which is numeric and for which page 1 is used.
C17_PageParameterAsStated == answeredWithPage(pageAsStated(response.query))

\* C17, amended: GET and Home use page 1 when the page parameter is absent,
\* not numeric or the number 0, pass every other numeric value on unchanged
\* to getPaginatedPosts, and answer with what that call returns.
C17_PageParameterAmended == answeredWithPage(pageAmended(response.query))

\* GET was asked for page 2 and answered with the result for page 2
C17_Witness ==
  /\ response.handler = "GET"
  /\ response.query = Str(<<50>>)
  /\ response.status = 200
  /\ response.currentPage = 2
  /\ 2 \in DOMAIN cachePage
  /\ response.totalPages = cachePage[2].totalPages

-----------------------------------------------------------------------------
(* C18 *)

\* C18: whatever the page parameter, the listing endpoint never answers with
\* an error: a value that is not numeric is taken as page 1, and a numeric
\* value outside 1..totalPages is answered with an empty list of posts.
\* The claim as stated; it fails where getAllPosts() rejects.
C18_ListingNeverErrors ==
  response.handler = "GET" =>
    /\ response.status = 200
    /\ ~numeric(response.query) => response.currentPage = 1
    /\ (numeric(response.query)
          /\ valueOf(response.query) \notin 1..response.totalPages)
         => response.posts = <<>>

-----------------------------------------------------------------------------
(* C19 *)

\* C19: where no two files of the directory have the same name, no two
\* Posts of the list of getAllPosts() have the same slug.
C19_SlugsUnique ==
  (cacheAll # <<>>
    /\ \A i, j \in 1..Len(files) : i # j => files[i].name # files[j].name)
    => \A i, j \in 1..Len(listed) : i # j => listed[i].slug # listed[j].slug

\* a list of three posts, from three files
C19_Witness ==
  /\ cacheAll # <<>>
  /\ Len(files) = 3
  /\ Len(listed) = 3
  /\ \A i \in 1..3 : placesOf(slugOf(files[i].name)) # {}

-----------------------------------------------------------------------------
(* C20 *)

\* C20: the page of a post shows 'Post not found' exactly when
\* getPostBySlug returned null, and shows the title, the date, the image and
\* the content of the Post otherwise; a missing post never makes it throw.
C20_NotFoundIffAbsent ==
  response.handler = "PostPage" =>
    /\ response.query.s \in DOMAIN cacheSlug
    /\ response.status = 200
    /\ LET r == cacheSlug[response.query.s]
       IN /\ response.view = "notFound" <=> r.st = "null"
          /\ r.st # "null" =>
               /\ response.view = "post"
               /\ response.post.title = r.post.title
               /\ response.post.date = r.post.date
               /\ response.post.imageUrl = r.post.imageUrl
               /\ response.post.content = r.post.content

\* the page of the slug z, for which there is no file, showed 'Post not found'
C20_Witness ==
  /\ response.handler = "PostPage"
  /\ response.query = Str(<<122>>)
  /\ fileOf(<<122>>) = 0
  /\ cacheSlug[<<122>>].st = "null"
  /\ response.status = 200
  /\ response.view = "notFound"

-----------------------------------------------------------------------------
(* C29 *)

\* how often the code unit c occurs in s
occurrences(s, c) == Cardinality({i \in 1..Len(s) : s[i] = c})

\* s and t are made of the same characters, each as often in one as in the other
permutations(s, t) ==
  /\ Len(s) = Len(t)
  /\ \A i \in 1..Len(s) : occurrences(s, s[i]) = occurrences(t, s[i])

\* C29: getPlaceholderImage depends on the multiset of the characters of the
\* slug alone: two slugs that are permutations of each other got the same
\* image, and so did two slugs whose character codes sum to numbers congruent
\* modulo 5.
C29_PlaceholderOfMultiset ==
  \A i, j \in 1..Len(imageCalls) :
    LET s == imageCalls[i].slug
        t == imageCalls[j].slug
    IN /\ permutations(s, t) => imageCalls[i].url = imageCalls[j].url
       /\ sumTo(s, Len(s)) % 5 = sumTo(t, Len(t)) % 5
            => imageCalls[i].url = imageCalls[j].url

\* getPlaceholderImage was called with 'a-e' and with 'e-a', and gave the
\* same image, not the first of the palette
C29_Witness ==
  /\ Len(imageCalls) = 2
  /\ imageCalls[1].slug = <<97, 45, 101>>
  /\ imageCalls[2].slug = <<101, 45, 97>>
  /\ imageCalls[1].url = imageCalls[2].url
  /\ imageCalls[1].url # placeholderImages[1]

-----------------------------------------------------------------------------
(* C21 *)

\* s is its own lowercase-normalized form: no capital letter and no space
normalized(s) == \A i \in 1..Len(s) : s[i] \notin 65..90 /\ s[i] # 32

-----------------------------------------------------------------------------
(* C22 *)

\* C22: the result of getAllPosts() does not depend on the order in which
\* the reads of the files complete: whatever that order, the call settles
\* with what it settles with when the reads complete in the order of the
\* directory listing: the same list in the same order (or the same rejection).
C22_CompletionOrderIrrelevant ==
  inFlight.phase = "settled" => inFlight.outcome = getAllPosts(dirOk, files)

\* the read of c.md completed first, then those of a.md and b.md; the list
\* holds the three posts, two of them of one date
C22_Witness ==
  /\ inFlight.phase = "settled"
  /\ inFlight.order = <<3, 1, 2>>
  /\ ~inFlight.outcome.threw
  /\ Len(inFlight.outcome.posts) = 3
  /\ \E i, j \in 1..3 :
       i # j /\ inFlight.outcome.posts[i].date = inFlight.outcome.posts[j].date

-----------------------------------------------------------------------------
(* C25 *)

\* C25: getAllPosts() completes only when the file system has answered every
\* read it issued: while a read has not called back (and it may never), the
\* call has not settled.
C25_SettlesOnlyWhenAllReadsAnswered ==
  inFlight.phase = "settled" => inFlight.pending = {}

-----------------------------------------------------------------------------
(* C23 *)

\* the date the front matter of the i-th file gives
dateOf(i) == prop(matter(files[i].text).data, "date")

\* C23: among posts of equal date the list of getAllPosts() keeps the order
\* of the directory listing: when f is listed before g in the directory and
\* both give the same date, the Post of f precedes the Post of g.
C23_TiesKeepEnumerationOrder ==
  cacheAll # <<>> =>
    \A f, g \in 1..Len(files) :
      (f < g /\ complete(f) /\ complete(g) /\ dateOf(f) = dateOf(g)) =>
        \A i \in placesOf(slugOf(files[f].name)), j \in placesOf(slugOf(files[g].name)) :
          i < j

-----------------------------------------------------------------------------
(* C24 *)

\* C24: no call of getAllPosts(), getPaginatedPosts(page) or
\* getPostBySlug(slug) writes, creates, renames or deletes a file: every step
\* leaves the entries of the content directory, their names, their texts
\* and whether they can be read, as they were.
C24_FilesNeverWritten ==
  [][files' = files /\ dirOk' = dirOk]_vars

\* the three operations have been called on a directory that holds files,
\* one of them unreadable
C24_Witness ==
  /\ cacheAll # <<>>
  /\ DOMAIN cachePage # {}
  /\ DOMAIN cacheSlug # {}
  /\ \E i \in 1..Len(files) : ~files[i].readable
  /\ \E i \in 1..Len(files) : complete(i)

-----------------------------------------------------------------------------
(* C26 *)

\* the directory reduced to the file slug.md, and not listable
ownFile(slug) == SelectSeq(files, LAMBDA f : f.name = slug \o DotMd)

\* C26: the lookup of a slug depends on the file slug.md alone, not on the
\* rest of the directory, on whether the directory can be listed, or on the
\* list getAllPosts() gave; and for every Post p of that list the lookup of
\* p.slug gives a Post, with the slug, title, date, excerpt and imageUrl of p.
C26_LookupConsistentWithList ==
  \A slug \in DOMAIN cacheSlug :
    /\ cacheSlug[slug] = getPostBySlug(ownFile(slug), slug)
    /\ cacheAll # <<>> =>
         \A j \in placesOf(slug) :
           /\ cacheSlug[slug].st = "post"
           /\ cacheSlug[slug].post.slug = listed[j].slug
           /\ cacheSlug[slug].post.title = listed[j].title
           /\ cacheSlug[slug].post.date = listed[j].date
           /\ cacheSlug[slug].post.excerpt = listed[j].excerpt
           /\ cacheSlug[slug].post.imageUrl = listed[j].imageUrl

\* the list holds the Post of a.md among others and "a" was looked up: the
\* two differ in their content alone
C26_Witness ==
  /\ cacheAll # <<>>
  /\ Len(listed) >= 2
  /\ placesOf(<<97>>) # {}
  /\ <<97>> \in DOMAIN cacheSlug
  /\ cacheSlug[<<97>>].st = "post"
  /\ cacheSlug[<<97>>].post.content # listed[CHOOSE j \in placesOf(<<97>>) : TRUE].content

-----------------------------------------------------------------------------
(* C28 *)

\* the i-th file is a readable .md file whose front matter parses
parsed(i) == endsWithMd(files[i].name) /\ files[i].readable /\ parses(i)

\* the front matter of the i-th file carries the three required keys
hasKeys(i) == \A k \in RequiredKeys : k \in DOMAIN matter(files[i].text).data

\* the list holds the Post of the i-th file
included(i) == placesOf(slugOf(files[i].name)) # {}

\* C28 as stated: a file is left out of the list of getAllPosts() exactly
\* when a required key is missing from its front matter: one that carries
\* title, date and excerpt is listed, even with an empty value.
C28_RejectsExactlyMissingKeys ==
  (dirOk /\ cacheAll # <<>> /\ ~cacheAll[1].threw) =>
    \A i \in 1..Len(files) : parsed(i) => (included(i) <=> hasKeys(i))

\* C28 amended: a file is left out of the list of getAllPosts() exactly when
\* one of title, date and excerpt is missing from its front matter or has a
\* falsy value: a file whose title is the empty string is left out.
C28_RejectsMissingOrFalsy ==
  (dirOk /\ cacheAll # <<>> /\ ~cacheAll[1].threw) =>
    \A i \in 1..Len(files) :
      parsed(i) =>
        (included(i) <=>
           \A k \in RequiredKeys : truthy(prop(matter(files[i].text).data, k)))

\* a file with the three keys and an empty title was left out of a list
\* that holds another file
C28_Witness ==
  /\ dirOk /\ cacheAll # <<>> /\ ~cacheAll[1].threw
  /\ \E i \in 1..Len(files) :
       /\ parsed(i) /\ hasKeys(i)
       /\ matter(files[i].text).data["title"] = <<>>
       /\ ~included(i)
  /\ listed # <<>>

-----------------------------------------------------------------------------
(* C27 *)

\* the file the slug names lies outside the content directory
outside(slug) == Head(segments(pathJoin(slug \o DotMd))) = DotDot

\* C27: getPostBySlug(slug) returns a Post only for a file of the content
\* directory: for a slug whose path leaves the directory through '..'
\* segments it returns null.
C27_NoPostFromOutside ==
  \A slug \in DOMAIN cacheSlug : outside(slug) => cacheSlug[slug].st = "null"

====
